---- MODULE Spec2Model ----
(***************************************************************************)
(* A model of alba_client/service.py: the AlbaService gateway client.      *)
(*                                                                         *)
(* One client instance (self) serves one call at a time. A call is an     *)
(* operation of AlbaService: it builds its parameter mapping, signs it,    *)
(* issues one blocking HTTP request through _request, and returns or       *)
(* raises. check_callback_sign is local. Python dicts are functions from   *)
(* strings to strings, Python strings are TLA+ strings, the None value is  *)
(* the reserved string None, and a dict argument left at None is the empty *)
(* dict (the code tests both with `if d:`).                                *)
(***************************************************************************)
EXTENDS Naturals, Sequences, FiniteSets, TLC

VARIABLES
    self,           \* the instance: service_id, secret, connection_profile, logger
    constructed,    \* what __init__ stored (never written again by the model)
    pc,             \* "idle" | "waiting" (inside requests.get/post) | "done"
    op,             \* the operation being called
    args,           \* its arguments
    sign_calls,     \* the calls of sign() made by this call: [method, url, params]
    sent,           \* the HTTP requests issued by this call: [method, url, data]
    response,       \* what the transport answered
    decode_reached, \* _request got to response.content.decode (line 49)
    outcome,        \* [kind, exc, msg, value]: what the call returned or raised
    accepted,       \* the callback payload accepted just before an altered re-check
    called_before   \* a call on this instance has already returned or raised

vars == <<self, constructed, pc, op, args, sign_calls, sent, response,
          decode_reached, outcome, accepted, called_before>>

-----------------------------------------------------------------------------
(* Bounds *)

\* the largest number of keys in bank_params, and in the extra keyword fields
MaxKeys == 1

-----------------------------------------------------------------------------
(* Python values *)

None == "None"

\* Python truth of a string-or-None value: None and '' are false
Truthy(v) == v \notin {None, ""}

EmptyDict == [k \in {} |-> ""]

\* d[k] = v
Put(d, k, v) == [x \in (DOMAIN d) \cup {k} |-> IF x = k THEN v ELSE d[x]]

\* d.update(e)
Update(d, e) == [x \in (DOMAIN d) \cup (DOMAIN e) |-> IF x \in DOMAIN e THEN e[x] ELSE d[x]]

\* d.get(k, default)
Get(d, k, default) == IF k \in DOMAIN d THEN d[k] ELSE default

\* d without the key k
Without(d, k) == [x \in (DOMAIN d) \ {k} |-> d[x]]

\* the dict {k: v}, or {} when v is None
Opt(k, v) == IF v = None THEN EmptyDict ELSE (k :> v)

\* every dict with at most n of the keys, each mapped to v
Dicts(keys, v, n) ==
    { [k \in ks |-> v] : ks \in { s \in SUBSET keys : Cardinality(s) <= n } }

-----------------------------------------------------------------------------
(* Collaborators of service.py *)

HTTP_OK == 200

BASE_URL == "https://partner.rficb.ru/"

\* hashlib.md5(s).hexdigest(), as a collision-free digest: its own preimage, tagged
md5(s) == "md5(" \o s \o ")"

\* every parameter name a request of this client can carry, in sorted order
SortedKeys ==
    << "account", "amount", "background", "card_token", "check", "comment",
       "commission", "cost", "email", "gate", "name", "operation", "order_id",
       "phone_number", "reason", "recurrent_params", "service_id", "test",
       "tid", "type", "version" >>

RECURSIVE Canonical(_, _)
\* "k=v&" for each key of params from position i of the sorted order, check left out
Canonical(params, i) ==
    IF i > Len(SortedKeys) THEN ""
    ELSE LET k == SortedKeys[i]
         IN (IF k \in DOMAIN params /\ k # "check"
                THEN k \o "=" \o params[k] \o "&"
                ELSE "")
            \o Canonical(params, i + 1)

\* sign(method, url, params, secret): a keyed digest of the method, the URL and
\* the parameters other than check, as a collision-free digest
sign(method, url, params, secret) ==
    "sign(" \o method \o " " \o url \o " " \o Canonical(params, 1) \o " " \o secret \o ")"

\* CODE2EXCEPTION: gateway error code -> exception class
CODE2EXCEPTION ==
    ("sign" :> "SignError") @@ ("funds" :> "InsufficientFundsError") @@
    ("tid" :> "UnknownTransactionError")

\* ConnectionProfile.second()
ConnectionProfile_second ==
    [card_token_url |-> "https://secure.rficb.ru/cardtoken/",
     card_token_test_url |-> "https://test.rficb.ru/cardtoken/"]

\* CardTokenResponse(result)
CardTokenResponse(result) == [CardTokenResponse |-> result]

-----------------------------------------------------------------------------
(* What a call can end with *)

NoOutcome == [kind |-> "none", exc |-> None, msg |-> None, value |-> None]

Return(v) == [kind |-> "return", exc |-> None, msg |-> None, value |-> v]

Raise(e, m) == [kind |-> "raise", exc |-> e, msg |-> m, value |-> None]

NoResponse == [kind |-> "none"]

-----------------------------------------------------------------------------
(* The inputs the model draws *)

ServiceIds == {"101"}
Secrets == {"k3y"}

Tids == {None, "", "t1"}
OrderIds == {None, "o1"}
Comments == {None, "c1"}
Commissions == {None, "partner"}
CardTokens == {None, "tok"}
RecurrentParams == {None, "rp"}
CancelOrderIds == {"o1", "o2"}
RefundTids == {"t1"}
Amounts == {None, "5"}
Reasons == {None, "r1"}
Gates == {"g1", "g2"}
Months == {"3", "12"}
CardHolders == {None, "IVAN"}

\* keys a caller may put in bank_params, and in the extra keyword fields
BankKeys == {"account", "cost", "commission", "card_token", "version", "check"}
ExtraKeys == {"account", "version", "background", "check"}

BankParams == Dicts(BankKeys, "123", MaxKeys)
Kwargs == Dicts(ExtraKeys, "9", MaxKeys)

InitPaymentArgs ==
    [pay_type : {"spg"}, cost : {"10"}, name : {"book"}, email : {"a@b.c"},
     phone : {"79"}, order_id : OrderIds, comment : Comments,
     bank_params : BankParams, commission : Commissions,
     card_token : CardTokens, recurrent_params : RecurrentParams,
     kwargs : Kwargs]

CardTokenRequests ==
    [service_id : ServiceIds, card : {"4111"}, exp_month : Months,
     exp_year : {"30"}, cvc : {"123"}, card_holder : CardHolders]

\* what the gateway may put in a JSON object
Codes == {None, "sign", "funds", "unknown_code_xyz"}
Msgs == {None, "m1"}
Messages == {None, "m2"}

ErrorObjects ==
    { ("status" :> "error") @@ Opt("code", c) @@ Opt("msg", m) @@ Opt("message", mm) :
        c \in Codes, m \in Msgs, mm \in Messages }

OkObjects ==
    { ("status" :> "ok") @@ ("types" :> "spg,mc"), ("status" :> "ok"), EmptyDict }

\* a response body: bytes that are not UTF-8, text that is not JSON, a JSON
\* array, or a JSON object
Bodies ==
    { [form |-> f, obj |-> EmptyDict] : f \in {"badutf8", "badjson", "array"} }
    \cup { [form |-> "object", obj |-> o] : o \in ErrorObjects \cup OkObjects }

StatusCodes == {HTTP_OK, 500}

\* what the transport may do with a request: requests.ConnectionError, another
\* requests exception, or a response
Responses ==
    { [kind |-> "connerr"], [kind |-> "other"] }
    \cup { [kind |-> "http", status_code |-> c, content |-> b] :
             c \in StatusCodes, b \in Bodies }

-----------------------------------------------------------------------------
(* AlbaService._request *)

\* classify with the code table ignored: every error raised as AlbaException
classify_generic(json_response) ==
    Raise("AlbaException",
          Get(json_response, "msg", Get(json_response, "message", None)))

\* lines 53-56: the error a status == "error" object is raised as
classify(json_response) ==
    LET msg == Get(json_response, "msg", Get(json_response, "message", None))
        code == Get(json_response, "code", "unknown")
    IN Raise(Get(CODE2EXCEPTION, code, "AlbaException"), msg)

\* lines 49-58: decode, parse, classify
decode(content) ==
    CASE content.form = "badutf8" -> Raise("UnicodeDecodeError", None)
      [] content.form = "badjson" -> Raise("ValueError", None)
      [] content.form = "array" -> Raise("TypeError", None)
      [] OTHER ->
            IF "status" \notin DOMAIN content.obj THEN Raise("KeyError", "status")
            ELSE IF content.obj["status"] = "error" THEN classify(content.obj)
            ELSE Return(content.obj)

\* _request with the status check of line 41 dropped: the body is always decoded
_request_body_first(r) ==
    CASE r.kind = "connerr" ->
            [decoded |-> FALSE, result |-> Raise("AlbaException", "ConnectionError")]
      [] r.kind = "other" ->
            [decoded |-> FALSE, result |-> Raise("RequestException", None)]
      [] OTHER -> [decoded |-> TRUE, result |-> decode(r.content)]

\* lines 41-58: what _request does with the transport's answer r:
\* [decoded: line 49 was reached, result: what _request returns or raises]
\* (the message of line 44 is in Russian; it is transliterated here)
_request(r) ==
    CASE r.kind = "connerr" ->
            [decoded |-> FALSE, result |-> Raise("AlbaException", "ConnectionError")]
      [] r.kind = "other" ->
            [decoded |-> FALSE, result |-> Raise("RequestException", None)]
      [] OTHER ->
            IF r.status_code # HTTP_OK
            THEN [decoded |-> FALSE,
                  result |-> Raise("AlbaException",
                                   "Server ne dostupen: " \o ToString(r.status_code))]
            ELSE [decoded |-> TRUE, result |-> decode(r.content)]

\* lines 33-39: the request goes out and the call blocks in requests.get/post
_request_send(url, method, data) ==
    /\ sent' = Append(sent, [method |-> method, url |-> url, data |-> data])
    /\ pc' = "waiting"
    /\ UNCHANGED <<response, decode_reached, outcome>>

_get(url, data) == _request_send(url, "get", data)

_post(url, data) == _request_send(url, "post", data)

\* what the operation o does with what _request returned or raised:
\* pay_types takes ['types'], create_card_token wraps a CardTokenResponse
after_request(o, result) ==
    IF result.kind # "return" THEN result
    ELSE CASE o = "pay_types" ->
                IF "types" \in DOMAIN result.value
                THEN Return(result.value["types"])
                ELSE Raise("KeyError", "types")
           [] o = "create_card_token" -> Return(CardTokenResponse(result.value))
           [] OTHER -> result

\* _request_receive with a retry: after a connection error the request goes out again
_request_receive_retry ==
    /\ pc = "waiting"
    /\ \E r \in Responses :
          IF r.kind = "connerr" /\ Len(sent) < 3
          THEN /\ sent' = Append(sent, sent[1])
               /\ UNCHANGED <<pc, response, decode_reached, outcome>>
          ELSE /\ response' = r
               /\ decode_reached' = _request(r).decoded
               /\ outcome' = after_request(op, _request(r).result)
               /\ pc' = "done"
               /\ UNCHANGED sent
    /\ UNCHANGED <<self, constructed, op, args, sign_calls, accepted, called_before>>

\* the transport answers; _request and the operation run to their end
_request_receive ==
    /\ pc = "waiting"
    /\ \E r \in Responses :
          /\ response' = r
          /\ decode_reached' = _request(r).decoded
          /\ outcome' = after_request(op, _request(r).result)
    /\ pc' = "done"
    /\ UNCHANGED <<self, constructed, op, args, sign_calls, sent, accepted,
                   called_before>>

-----------------------------------------------------------------------------
(* The operations of AlbaService *)

\* what a call leaves alone when it goes out through _get or _post
call(o, a, signs) ==
    /\ pc = "idle"
    /\ op' = o
    /\ args' = a
    /\ sign_calls' = signs
    /\ UNCHANGED <<self, constructed, accepted, called_before>>

\* a call that ends without reaching _request
local(o, a, result) ==
    /\ pc = "idle"
    /\ op' = o
    /\ args' = a
    /\ outcome' = result
    /\ pc' = "done"
    /\ UNCHANGED <<self, constructed, sign_calls, sent, response, decode_reached,
                   called_before>>

\* lines 70-73
pay_types_url(s) ==
    BASE_URL \o "alba/pay_types/?service_id=" \o s.service_id
             \o "&check=" \o md5(s.service_id \o s.secret)

pay_types ==
    /\ call("pay_types", <<>>, <<>>)
    /\ _get(pay_types_url(self), EmptyDict)

\* init_payment_fields with bank_params stored nested under one key, not merged
init_payment_fields_nested(s, a) ==
    LET f0 == [cost |-> a.cost, name |-> a.name, email |-> a.email,
               phone_number |-> a.phone, background |-> "1", type |-> a.pay_type,
               service_id |-> s.service_id, version |-> "2.0"]
        f3 == IF DOMAIN a.bank_params # {} THEN Put(f0, "bank_params", "dict") ELSE f0
    IN Update(f3, a.kwargs)

\* lines 92-116: the fields, before check is set
init_payment_fields(s, a) ==
    LET f0 == [cost |-> a.cost, name |-> a.name, email |-> a.email,
               phone_number |-> a.phone, background |-> "1", type |-> a.pay_type,
               service_id |-> s.service_id, version |-> "2.0"]
        f1 == IF Truthy(a.order_id) THEN Put(f0, "order_id", a.order_id) ELSE f0
        f2 == IF Truthy(a.comment) THEN Put(f1, "comment", a.comment) ELSE f1
        f3 == IF DOMAIN a.bank_params # {} THEN Update(f2, a.bank_params) ELSE f2
        f4 == IF Truthy(a.commission) THEN Put(f3, "commission", a.commission) ELSE f3
        f5 == IF Truthy(a.card_token) THEN Put(f4, "card_token", a.card_token) ELSE f4
        f6 == IF Truthy(a.recurrent_params)
              THEN Put(f5, "recurrent_params", a.recurrent_params) ELSE f5
    IN Update(f6, a.kwargs)

\* init_payment_data with check set before the extra keyword fields are merged
init_payment_data_kwargs_last(s, a) ==
    LET fields == init_payment_fields(s, a)
        url == BASE_URL \o "alba/input/"
    IN Update(Put(fields, "check", sign("POST", url, fields, s.secret)), a.kwargs)

\* lines 92-119: the fields that go out, check set last
init_payment_data(s, a) ==
    LET fields == init_payment_fields(s, a)
        url == BASE_URL \o "alba/input/"
    IN Put(fields, "check", sign("POST", url, fields, s.secret))

init_payment ==
    /\ pc = "idle"
    /\ \E a \in InitPaymentArgs :
       LET url == BASE_URL \o "alba/input/"
       IN /\ call("init_payment", a,
                  << [method |-> "POST", url |-> url,
                      params |-> init_payment_fields(self, a)] >>)
          /\ _post(url, init_payment_data(self, a))

\* transaction_details_params with the final else dropped: order_id is sent as it is
transaction_details_params_no_raise(s, tid, order_id) ==
    IF Truthy(tid)
    THEN [exc |-> None, params |-> [tid |-> tid, version |-> "2.0"]]
    ELSE [exc |-> None,
          params |-> [order_id |-> order_id, service_id |-> s.service_id,
                      version |-> "2.0"]]

\* lines 128-136: the parameters, or the exception of line 133
transaction_details_params(s, tid, order_id) ==
    IF Truthy(tid)
    THEN [exc |-> None, params |-> [tid |-> tid, version |-> "2.0"]]
    ELSE IF Truthy(order_id)
    THEN [exc |-> None,
          params |-> [order_id |-> order_id, service_id |-> s.service_id,
                      version |-> "2.0"]]
    ELSE [exc |-> "MissArgumentError", params |-> EmptyDict]

transaction_details ==
    /\ pc = "idle"
    /\ \E tid \in Tids, order_id \in OrderIds :
          LET a == [tid |-> tid, order_id |-> order_id]
              p == transaction_details_params(self, tid, order_id)
              url == BASE_URL \o "alba/details/"
          IN IF p.exc # None
             THEN /\ local("transaction_details", a,
                           Raise(p.exc, "Ozhidaetsya argument tid ili order_id"))
                  /\ UNCHANGED accepted
             ELSE /\ call("transaction_details", a,
                          << [method |-> "POST", url |-> url, params |-> p.params] >>)
                  /\ _post(url, Put(p.params, "check",
                                    sign("POST", url, p.params, self.secret)))

\* lines 146-155
refund_fields(tid, amount, test, reason) ==
    LET f0 == [version |-> "2.0", tid |-> tid]
        f1 == IF Truthy(amount) THEN Put(f0, "amount", amount) ELSE f0
        f2 == IF test THEN Put(f1, "test", "1") ELSE f1
    IN IF Truthy(reason) THEN Put(f2, "reason", reason) ELSE f2

refund ==
    /\ pc = "idle"
    /\ \E tid \in RefundTids, amount \in Amounts, test \in BOOLEAN, reason \in Reasons :
          LET fields == refund_fields(tid, amount, test, reason)
              url == BASE_URL \o "alba/refund/"
          IN /\ call("refund",
                     [tid |-> tid, amount |-> amount, test |-> test,
                      reason |-> reason],
                     << [method |-> "POST", url |-> url, params |-> fields] >>)
             /\ _post(url, Put(fields, "check",
                               sign("POST", url, fields, self.secret)))

\* lines 166-169
gate_details_params(s, gate) ==
    [version |-> "2.0", gate |-> gate, service_id |-> s.service_id]

gate_details ==
    /\ pc = "idle"
    /\ \E gate \in Gates :
          LET params == gate_details_params(self, gate)
              url == BASE_URL \o "alba/gate_details/"
          IN /\ call("gate_details", [gate |-> gate],
                     << [method |-> "GET", url |-> url, params |-> params] >>)
             /\ _get(url, Put(params, "check",
                              sign("GET", url, params, self.secret)))

\* lines 203-215
create_card_token_params(request) ==
    LET month == IF Len(request.exp_month) = 1
                 THEN "0" \o request.exp_month ELSE request.exp_month
        params == [service_id |-> request.service_id, card |-> request.card,
                   exp_month |-> month, exp_year |-> request.exp_year,
                   cvc |-> request.cvc]
    IN IF Truthy(request.card_holder)
       THEN Put(params, "card_holder", request.card_holder) ELSE params

\* create_card_token with the test profile switched on the instance
create_card_token_switching ==
    /\ pc = "idle"
    /\ \E request \in CardTokenRequests, test \in BOOLEAN :
          LET profile == IF test
                         THEN [self.connection_profile EXCEPT
                                 !.card_token_url =
                                     self.connection_profile.card_token_test_url]
                         ELSE self.connection_profile
          IN /\ self' = [self EXCEPT !.connection_profile = profile]
             /\ op' = "create_card_token"
             /\ args' = [request |-> request, test |-> test]
             /\ sign_calls' = <<>>
             /\ _post(profile.card_token_url \o "create",
                      create_card_token_params(request))
             /\ UNCHANGED <<constructed, accepted, called_before>>

create_card_token ==
    /\ pc = "idle"
    /\ \E request \in CardTokenRequests, test \in BOOLEAN :
          LET url == IF test THEN self.connection_profile.card_token_test_url
                     ELSE self.connection_profile.card_token_url
          IN /\ call("create_card_token", [request |-> request, test |-> test],
                     <<>>)
             /\ _post(url \o "create", create_card_token_params(request))

\* lines 225-230
cancel_recurrent_payment_fields(s, order_id) ==
    [operation |-> "cancel", order_id |-> order_id, service_id |-> s.service_id,
     version |-> "2.0"]

cancel_recurrent_payment ==
    /\ pc = "idle"
    /\ \E order_id \in CancelOrderIds :
          LET fields == cancel_recurrent_payment_fields(self, order_id)
              url == BASE_URL \o "alba/recurrent_change/"
          IN /\ call("cancel_recurrent_payment", [order_id |-> order_id],
                     << [method |-> "POST", url |-> url, params |-> fields] >>)
             /\ _post(url, Put(fields, "check",
                               sign("POST", url, fields, self.secret)))

-----------------------------------------------------------------------------
(* check_callback_sign *)

\* order with one field (income) left out
order_without_income ==
    << "tid", "name", "comment", "partner_id", "service_id", "order_id", "type",
       "cost", "income_total", "partner_income", "system_income",
       "command", "phone_number", "email", "resultStr", "date_created",
       "version" >>

\* lines 179-196
order ==
    << "tid", "name", "comment", "partner_id", "service_id", "order_id", "type",
       "cost", "income_total", "income", "partner_income", "system_income",
       "command", "phone_number", "email", "resultStr", "date_created",
       "version" >>

RECURSIVE join_params(_, _)
\* line 197 and the join of line 200: post.get(field, '') for the fields of
\* order from position i on, concatenated
join_params(post, i) ==
    IF i > Len(order) THEN ""
    ELSE Get(post, order[i], "") \o join_params(post, i + 1)

\* lines 197-200
check_callback_sign(s, post) ==
    LET digest == md5(join_params(post, 1) \o s.secret)
    IN IF "check" \in DOMAIN post
       THEN Return(digest = post["check"])
       ELSE Raise("KeyError", "check")

\* the 18 fields of a payment notification
CallbackFields ==
    { "tid", "name", "comment", "partner_id", "service_id", "order_id", "type",
      "cost", "income_total", "income", "partner_income", "system_income",
      "command", "phone_number", "email", "resultStr", "date_created", "version" }

\* the fields a drawn payload may carry, and their values
ProbeFields == {"tid", "name", "version"}
CallbackValues == {"", "a", "b", "ab"}

\* the payloads drawn: some of the fields, and no check, a wrong check, or the
\* check the gateway computes with the shared secret
CallbackPayloads(secret) ==
    LET fields == UNION { [ks -> CallbackValues] : ks \in SUBSET ProbeFields }
    IN fields
       \cup { Put(p, "check", "bad") : p \in fields }
       \cup { Put(p, "check", md5(join_params(p, 1) \o secret)) : p \in fields }

verify_callback ==
    /\ pc = "idle"
    /\ \E post \in CallbackPayloads(self.secret) :
          /\ local("check_callback_sign", [post |-> post],
                   check_callback_sign(self, post))
          /\ accepted' = <<>>

\* the accepted payload comes again with the value of one field of order altered
verify_altered ==
    /\ pc = "done"
    /\ op = "check_callback_sign"
    /\ accepted = <<>>
    /\ outcome.kind = "return"
    /\ outcome.value = TRUE
    /\ \E field \in CallbackFields, value \in CallbackValues :
          /\ value # Get(args.post, field, "")
          /\ accepted' = <<args.post>>
          /\ args' = [post |-> Put(args.post, field, value)]
          /\ outcome' = check_callback_sign(self, Put(args.post, field, value))
    /\ UNCHANGED <<self, constructed, pc, op, sign_calls, sent, response,
                   decode_reached, called_before>>

-----------------------------------------------------------------------------
(* The client and its caller *)

\* lines 18-29
__init__(service_id, secret, logger) ==
    [service_id |-> service_id, secret |-> secret,
     connection_profile |-> ConnectionProfile_second,
     logger |-> IF Truthy(logger) THEN logger ELSE "logging.getLogger"]

Loggers == {None}

Init ==
    /\ self \in { __init__(i, k, l) : i \in ServiceIds, k \in Secrets, l \in Loggers }
    /\ constructed = self
    /\ pc = "idle"
    /\ op = "none"
    /\ args = <<>>
    /\ sign_calls = <<>>
    /\ sent = <<>>
    /\ response = NoResponse
    /\ decode_reached = FALSE
    /\ outcome = NoOutcome
    /\ accepted = <<>>
    /\ called_before = FALSE

\* the call has returned or raised; the caller may call again
call_returns ==
    /\ pc = "done"
    /\ pc' = "idle"
    /\ op' = "none"
    /\ args' = <<>>
    /\ sign_calls' = <<>>
    /\ sent' = <<>>
    /\ response' = NoResponse
    /\ decode_reached' = FALSE
    /\ outcome' = NoOutcome
    /\ accepted' = <<>>
    /\ called_before' = TRUE
    /\ UNCHANGED <<self, constructed>>

Next ==
    \/ pay_types
    \/ init_payment
    \/ transaction_details
    \/ refund
    \/ gate_details
    \/ create_card_token
    \/ cancel_recurrent_payment
    \/ verify_callback
    \/ verify_altered
    \/ _request_receive
    \/ call_returns

Spec == Init /\ [][Next]_vars

-----------------------------------------------------------------------------
(* The claims *)

GatewayOps ==
    {"pay_types", "init_payment", "transaction_details", "refund", "gate_details",
     "create_card_token", "cancel_recurrent_payment"}

SignedOps ==
    {"init_payment", "transaction_details", "refund", "gate_details",
     "cancel_recurrent_payment"}

\* C1: transaction_details called with neither tid nor order_id (None, or any
\* other false value) ends with MissArgumentError, and by then no HTTP request
\* has been issued, no response received and sign has not been called.
C1_MissingArgument ==
    (op = "transaction_details" /\ ~Truthy(args.tid) /\ ~Truthy(args.order_id))
    => /\ pc = "done"
       /\ outcome.kind = "raise"
       /\ outcome.exc = "MissArgumentError"
       /\ sent = <<>>
       /\ sign_calls = <<>>
       /\ response = NoResponse

C1_Witness ==
    /\ op = "transaction_details"
    /\ args.tid = None
    /\ args.order_id = None
    /\ pc = "done"
    /\ outcome.exc = "MissArgumentError"

\* C2: for a 200 response whose JSON object has status "error", the call raises
\* the class CODE2EXCEPTION maps the code to, or AlbaException when the code is
\* not a key of the table or is absent, with the text of msg, or of message when
\* msg is absent.
C2_ErrorMapping ==
    (/\ pc = "done"
     /\ response.kind = "http"
     /\ response.status_code = HTTP_OK
     /\ response.content.form = "object"
     /\ "status" \in DOMAIN response.content.obj
     /\ response.content.obj["status"] = "error")
    => LET o == response.content.obj
       IN /\ outcome.kind = "raise"
          /\ outcome.exc = (IF "code" \in DOMAIN o /\ o["code"] \in DOMAIN CODE2EXCEPTION
                            THEN CODE2EXCEPTION[o["code"]]
                            ELSE "AlbaException")
          /\ outcome.msg = (IF "msg" \in DOMAIN o THEN o["msg"]
                            ELSE IF "message" \in DOMAIN o THEN o["message"]
                            ELSE None)

C2_Witness ==
    /\ pc = "done"
    /\ response.kind = "http"
    /\ response.status_code = HTTP_OK
    /\ response.content.form = "object"
    /\ response.content.obj = ("status" :> "error") @@ ("code" :> "sign")
                              @@ ("message" :> "m2")
    /\ outcome.exc = "SignError"
    /\ outcome.msg = "m2"

\* C3: a call of a gateway operation issues at most one HTTP request; while it
\* waits for the transport it has issued exactly one and has neither returned
\* nor raised; when it has ended it has issued exactly one request and got the
\* transport's answer, or none at all when transaction_details raised
\* MissArgumentError; and a call that ended after a failure raised and issued
\* no second request.
C3_OneRequestPerCall ==
    /\ Len(sent) <= 1
    /\ pc = "waiting" => (Len(sent) = 1 /\ outcome = NoOutcome /\ response = NoResponse)
    /\ (pc = "done" /\ op \in GatewayOps)
       => IF response # NoResponse
          THEN Len(sent) = 1
          ELSE /\ sent = <<>>
               /\ op = "transaction_details"
               /\ outcome.exc = "MissArgumentError"
    /\ (pc = "done" /\ response # NoResponse /\ _request(response).result.kind = "raise")
       => (outcome.kind = "raise" /\ Len(sent) = 1)

C3_Witness ==
    /\ called_before
    /\ pc = "done"
    /\ op = "refund"
    /\ response.kind = "connerr"
    /\ outcome.kind = "raise"
    /\ Len(sent) = 1

\* C4 as claimed: in every signed operation the mapping given to sign has no
\* check key, and the check that goes out is sign's signature of the method, the
\* URL, the other parameters that go out and the secret.
C4_NoCheckGivenToSign ==
    (op \in SignedOps /\ sent # <<>>)
    => /\ Len(sign_calls) = 1
       /\ "check" \notin DOMAIN sign_calls[1].params
       /\ "check" \in DOMAIN sent[1].data
       /\ sent[1].data["check"] =
             sign(sign_calls[1].method, sent[1].url, Without(sent[1].data, "check"),
                  self.secret)

\* C4 as amended: the mapping given to sign has a check key only in
\* init_payment called with check in bank_params or in the extra keyword
\* fields; apart from check it is the mapping that goes out; and the check that
\* goes out is always sign's signature of the method, the URL, the other
\* parameters that go out and the secret, whatever check the caller gave.
C4_CheckIsDerived ==
    (op \in SignedOps /\ sent # <<>>)
    => /\ Len(sign_calls) = 1
       /\ "check" \in DOMAIN sign_calls[1].params
          => /\ op = "init_payment"
             /\ "check" \in (DOMAIN args.bank_params) \cup (DOMAIN args.kwargs)
       /\ sign_calls[1].url = sent[1].url
       /\ Without(sign_calls[1].params, "check") = Without(sent[1].data, "check")
       /\ "check" \in DOMAIN sent[1].data
       /\ sent[1].data["check"] =
             sign(sign_calls[1].method, sent[1].url, Without(sent[1].data, "check"),
                  self.secret)

C4_Witness ==
    /\ op = "init_payment"
    /\ sent # <<>>
    /\ "check" \in DOMAIN args.kwargs
    /\ "check" \in DOMAIN sign_calls[1].params
    /\ sent[1].data["check"] # args.kwargs["check"]

\* C5 as claimed: check_callback_sign returns a boolean and does not raise,
\* whatever the payload.
C5_ReturnsBoolean ==
    (op = "check_callback_sign" /\ pc = "done")
    => (outcome.kind = "return" /\ outcome.value \in BOOLEAN)

\* C6 as claimed: every request init_payment sends has version "2.0" and
\* background "1".
C6_FixedVersionBackground ==
    (op = "init_payment" /\ sent # <<>>)
    => /\ sent[1].data["version"] = "2.0"
       /\ sent[1].data["background"] = "1"

\* C7: when the payload that check_callback_sign accepted comes again with the
\* value of one of the 18 fields altered (a missing field has the value ''),
\* the secret and check being the same, check_callback_sign returns False.
C7_AlteredRejected ==
    (/\ op = "check_callback_sign"
     /\ pc = "done"
     /\ accepted # <<>>
     /\ check_callback_sign(constructed, accepted[1]) = Return(TRUE))
    => outcome = Return(FALSE)

C7_Witness ==
    /\ op = "check_callback_sign"
    /\ pc = "done"
    /\ accepted # <<>>
    /\ DOMAIN accepted[1] = {"tid", "name", "check"}
    /\ accepted[1]["tid"] = "a"
    /\ accepted[1]["name"] = "b"
    /\ args.post["tid"] = "ab"
    /\ outcome = Return(FALSE)

\* C8: when the transport raised ConnectionError or answered with a status
\* other than 200, the call raises AlbaException, with the transport error or
\* the status code, and the body was never decoded.
C8_Unavailable ==
    (/\ pc = "done"
     /\ \/ response.kind = "connerr"
        \/ (response.kind = "http" /\ response.status_code # HTTP_OK))
    => /\ outcome.kind = "raise"
       /\ outcome.exc = "AlbaException"
       /\ outcome.msg = (IF response.kind = "connerr" THEN "ConnectionError"
                         ELSE "Server ne dostupen: " \o ToString(response.status_code))
       /\ ~decode_reached

C8_Witness ==
    /\ pc = "done"
    /\ response.kind = "http"
    /\ response.status_code = 500
    /\ response.content.form = "object"
    /\ response.content.obj = ("status" :> "error") @@ ("code" :> "sign")
                              @@ ("msg" :> "m1")
    /\ outcome.exc = "AlbaException"
    /\ ~decode_reached

\* the keys of bank_params that a later step of init_payment writes again
Overwritten(a) ==
    (DOMAIN a.kwargs) \cup {"check"}
    \cup (IF Truthy(a.commission) THEN {"commission"} ELSE {})
    \cup (IF Truthy(a.card_token) THEN {"card_token"} ELSE {})
    \cup (IF Truthy(a.recurrent_params) THEN {"recurrent_params"} ELSE {})

\* C9 as claimed: every key of bank_params is a top-level field of the request
\* init_payment sends, with the value bank_params gives it.
C9_BankParamsFlat ==
    (op = "init_payment" /\ sent # <<>>)
    => \A k \in DOMAIN args.bank_params :
          /\ k \in DOMAIN sent[1].data
          /\ sent[1].data[k] = args.bank_params[k]

\* the fields the gateway protocol fixes (C6)
FixedFields == {"version", "background"}

\* C9 as amended: every key of bank_params is a top-level field of the request
\* init_payment signs and sends, and, the fixed fields version and background
\* aside, has the value bank_params gives it unless a later step writes the key
\* again: commission, card_token or recurrent_params given a true value, a key
\* of the extra keyword fields, or check.
C9_BankParamsFlatUnlessOverwritten ==
    (op = "init_payment" /\ sent # <<>>)
    => \A k \in DOMAIN args.bank_params :
          /\ k \in DOMAIN sent[1].data
          /\ k \in DOMAIN sign_calls[1].params
          /\ k \notin Overwritten(args) \cup FixedFields
             => /\ sent[1].data[k] = args.bank_params[k]
                /\ sign_calls[1].params[k] = args.bank_params[k]

C9_Witness ==
    /\ op = "init_payment"
    /\ sent # <<>>
    /\ args.bank_params = ("account" :> "123")
    /\ args.kwargs = ("version" :> "9")
    /\ args.commission = "partner"
    /\ sent[1].data["account"] = "123"

\* C10: whatever calls were made, the instance holds what __init__ stored, and
\* the card-token request goes to the URL that the constructed connection
\* profile and this call's test flag give.
C10_InstanceUnchanged ==
    /\ self = constructed
    /\ (op = "create_card_token" /\ sent # <<>>)
       => sent[1].url =
             (IF args.test THEN constructed.connection_profile.card_token_test_url
              ELSE constructed.connection_profile.card_token_url) \o "create"

C10_Witness ==
    /\ called_before
    /\ pc = "done"
    /\ op = "create_card_token"
    /\ ~args.test
    /\ outcome.kind = "raise"
    /\ self = constructed

====
